---- MODULE Spec2Model ----
(***************************************************************************)
(* Linting pipeline of the CSml / MCml editor extension: persistent        *)
(* per-language linter processes, the line protocol on their stdio, the    *)
(* debounced change trigger and the publication of diagnostics.            *)
(***************************************************************************)
EXTENDS Integers, Sequences, FiniteSets, TLC

(* ------------------------------ bounds -------------------------------- *)

\* number of editor events (change, save, focus, deactivation) after activation in a run
MaxEvents == 2

\* number of responses of a linter that are not well-formed in a run
MaxMalformed == 1

\* clock ticks per debounce delay
TicksPerDelay == 2

\* number of process exits in a run
MaxCrashes == 1

\* number of diagnostics handed to the quick-fix provider in one call
MaxDiagnostics == 2

(* ------------------------- program constants -------------------------- *)

\* setTimeout(..., 300)
DebounceDelay == 300

TickLen == DebounceDelay \div TicksPerDelay

\* ['csml', 'mcml'].includes(language)
Languages == {"csml", "mcml"}

\* a test that lets every language through
SupportedAny(language) == TRUE

Supported(language) == language \in Languages

(* ------------------------------ documents ----------------------------- *)

Docs == {"a.csml", "b.csml", "c.mcml", "n.txt"}

LanguageId(d) ==
    CASE d = "a.csml" -> "csml"
      [] d = "b.csml" -> "csml"
      [] d = "c.mcml" -> "mcml"
      [] OTHER        -> "plaintext"

\* the keys the Map of processes can be asked for
LanguageIds == {LanguageId(d) : d \in Docs}

\* the sets of documents an editor session works on
Workspaces == {{"a.csml", "b.csml"}, {"a.csml", "c.mcml"}, {"a.csml", "n.txt"}}

\* vscode.workspace.textDocuments.forEach visits the documents in this order
DocOrder == <<"a.csml", "b.csml", "c.mcml", "n.txt">>

(* --------------------------- wire protocol ---------------------------- *)

\* The linter's answer to a source text: an ordered list of issues.
Analyze(code) ==
    CASE code = 0 -> <<[line |-> 2, column |-> 3, length |-> 4, severity |-> 1,
                        message |-> "m", code |-> "replace-with-C"]>>
      [] code = 1 -> <<[line |-> 1, column |-> 0, message |-> "Unexpected token"]>>
      [] code = 2 -> <<>>
      [] OTHER    -> <<[line |-> code, column |-> 0, length |-> 0, severity |-> 2,
                        message |-> "m", code |-> "universal-rule"],
                       [line |-> code, column |-> 5, length |-> 2,
                        message |-> "w", code |-> ""]>>

\* One response record on the linter's stdout: a body followed by '\n'.
\* rid names the request the linter was answering (not visible to the host).
ResponseRecord(req, wellFormed) ==
    << [ch |-> IF wellFormed THEN "json" ELSE "junk", code |-> req.code, rid |-> req.rid],
       [ch |-> "nl", code |-> 0, rid |-> req.rid] >>

EndsWithNewline(output) == output # <<>> /\ output[Len(output)].ch = "nl"

RECURSIVE TrimLeft(_)
TrimLeft(s) == IF s # <<>> /\ Head(s).ch = "nl" THEN TrimLeft(Tail(s)) ELSE s

RECURSIVE TrimRight(_)
TrimRight(s) ==
    IF s # <<>> /\ s[Len(s)].ch = "nl" THEN TrimRight(SubSeq(s, 1, Len(s) - 1)) ELSE s

\* output.trim()
Trim(s) == TrimRight(TrimLeft(s))

\* JSON.parse: succeeds on exactly one JSON value, throws otherwise
JSONParse(s) ==
    IF Len(s) = 1 /\ s[1].ch = "json"
    THEN [ok |-> TRUE, issues |-> Analyze(s[1].code), rid |-> s[1].rid]
    ELSE [ok |-> FALSE, issues |-> <<>>, rid |-> <<"", 0>>]

(* ----------------------- issue -> diagnostic -------------------------- *)

ToDiagnostic(issue) ==
    LET len == IF "length" \in DOMAIN issue /\ issue.length # 0 THEN issue.length ELSE 1
        sev == IF "severity" \in DOMAIN issue /\ issue.severity = 1
               THEN "Warning" ELSE "Error"
        base == [range |-> <<issue.line, issue.column, issue.line, issue.column + len>>,
                 message |-> issue.message, severity |-> sev]
    IN  IF "code" \in DOMAIN issue /\ issue.code # ""
        THEN base @@ [code |-> issue.code]
        ELSE base

\* issues.map(issue => ...)
Diagnostics(issues) == [i \in 1..Len(issues) |-> ToDiagnostic(issues[i])]

(* ------------------------------- state -------------------------------- *)

VARIABLES
    call,             \* a function under study: its name, input and result
    pythonCmd,        \* the located runtime command; "unset" before the module
                      \* has loaded, "failed" when loading threw
    workspace,        \* the documents of the session
    textDocuments,    \* vscode.workspace.textDocuments at activation
    activated,        \* registerLinters has run
    deactivated,      \* deactivate has run
    text,             \* text[d]: current content of document d (a version number)
    procs,            \* every linter process ever spawned, in spawn order
    pythonProcesses,  \* language -> index into procs, 0 when the map has no entry
    published,        \* diagnosticCollection: document -> diagnostics
    timers,           \* live setTimeout handles
    debounceMap,      \* document -> timer id, 0 when the map has no entry
    reqLog,           \* history: per document, the lint requests issued
    sinceChange,      \* history: time since the last change event of a document
    timerReqs,        \* history: timer-issued requests since the last change event
    nEvents,          \* editor events so far
    nCrashes,         \* process exits so far
    nMalformed        \* malformed responses so far

vars == <<call, pythonCmd, workspace, textDocuments, activated, deactivated, text, procs, pythonProcesses, published, timers, debounceMap,
          reqLog, sinceChange, timerReqs, nEvents, nCrashes,
          nMalformed>>

(* ---------------------------- process pool ---------------------------- *)

\* spawn(pythonCmd, [pythonScriptPath], {stdio: pipes}): the ChildProcess object
\* is returned whether or not the operating system started the process
startLinterProcess(language, spawnOk) ==
    [lang |-> language, cmd |-> pythonCmd, spawned |-> spawnOk, alive |-> spawnOk,
     ended |-> FALSE, stdin |-> <<>>, stdout |-> <<>>, listeners |-> <<>>]

\* a pool that never finds its entry
HasProcessNever(pp, language) == FALSE

\* pythonProcesses.has(language)
HasProcess(pp, language) == pp[language] # 0

\* st = [procs, pp, log]
getLinterProcess(st, language, spawnOk) ==
    IF ~HasProcess(st.pp, language)
    THEN [st EXCEPT !.procs = Append(st.procs, startLinterProcess(language, spawnOk)),
                    !.pp = [st.pp EXCEPT ![language] = Len(st.procs) + 1]]
    ELSE st

\* an exchange is outstanding on the process
Busy(p) == p.stdin # <<>> \/ p.stdout # <<>> \/ p.listeners # <<>>

\* proc.stdin.write(message): the bytes reach a running process whose stdin
\* has not been ended; otherwise the stream reports an error and drops them
StdinWrite(p, msg) ==
    IF p.alive /\ ~p.ended THEN [p EXCEPT !.stdin = Append(p.stdin, msg)] ELSE p

\* proc.stdout.on('data', onData)
StdoutOn(p, listener) == [p EXCEPT !.listeners = Append(p.listeners, listener)]

lintWithPersistentProcess(st, language, code, d, info) ==
    LET st1 == getLinterProcess(st, language, info.spawnOk)
        k   == st1.pp[language]
        p   == st1.procs[k]
        rid == <<d, Len(st1.log[d]) + 1>>
        message  == [code |-> code, rid |-> rid]
        listener == [rid |-> rid, doc |-> d, output |-> <<>>]
        entry == [code |-> code, trigger |-> info.trigger, elapsed |-> info.elapsed,
                  proc |-> k, toLive |-> p.alive, busy |-> Busy(p), late |-> info.late,
                  resp |-> "none", fate |-> "listening"]
    IN  [st1 EXCEPT !.procs[k] = StdinWrite(StdoutOn(p, listener), message),
                    !.log[d] = Append(st1.log[d], entry)]

runLinter(st, d, info) ==
    IF ~Supported(LanguageId(d)) THEN st
    ELSE lintWithPersistentProcess(st, LanguageId(d), text[d], d, info)

Pool == [procs |-> procs, pp |-> pythonProcesses, log |-> reqLog]

\* the processes of ps that the operating system did not start
SpawnFailures(ps) == {k \in 1..Len(ps) : ~ps[k].spawned}

SetPool(st) ==
    /\ procs' = st.procs
    /\ pythonProcesses' = st.pp
    /\ reqLog' = st.log
    /\ nCrashes' = nCrashes + Cardinality(SpawnFailures(st.procs))
                            - Cardinality(SpawnFailures(procs))

\* whether a spawn made in this step succeeds
SpawnOutcomes == IF nCrashes < MaxCrashes THEN BOOLEAN ELSE {TRUE}

Info(trigger, d, spawnOk) ==
    [trigger |-> trigger, elapsed |-> sinceChange[d], late |-> deactivated,
     spawnOk |-> spawnOk]

(* ------------------------------- Init --------------------------------- *)

\* no function is under study
NoCall == [fn |-> "none"]

\* the editor session before activate
InitSession ==
    /\ workspace \in Workspaces
    /\ textDocuments \in {{}, workspace}
    /\ activated = FALSE
    /\ deactivated = FALSE
    /\ text = [d \in Docs |-> 0]
    /\ procs = <<>>
    /\ pythonProcesses = [l \in LanguageIds |-> 0]
    /\ published = [d \in Docs |-> <<>>]
    /\ timers = {}
    /\ debounceMap = [d \in Docs |-> 0]
    /\ reqLog = [d \in Docs |-> <<>>]
    /\ sinceChange = [d \in Docs |-> DebounceDelay]
    /\ timerReqs = [d \in Docs |-> 0]
    /\ nEvents = 0
    /\ nCrashes = 0
    /\ nMalformed = 0

\* the state after the module has loaded, before activate
Init ==
    /\ call = NoCall
    /\ pythonCmd = "python3"
    /\ InitSession

(* ------------------------------ timers -------------------------------- *)

\* a handle not in use
NewTimerId(ts) == CHOOSE i \in 1..(Cardinality(ts) + 1) : \A t \in ts : t.id # i

\* a clearTimeout that cancels every pending timer
ClearTimeoutAll(ts, id) == {}

\* a change handler that leaves the pending timer running
ClearTimeoutNoop(ts, id) == ts

\* clearTimeout(handle): no effect when the handle is undefined or not live
ClearTimeout(ts, id) == {t \in ts : t.id # id}

\* setTimeout(callback, 300)
SetTimeout(ts, d) == ts \cup {[id |-> NewTimerId(ts), doc |-> d, remaining |-> DebounceDelay]}

(* --------------------------- editor events ---------------------------- *)

RECURSIVE LintEach(_, _, _, _)
LintEach(st, open, i, spawnOk) ==
    IF i > Len(DocOrder) THEN st
    ELSE LET d == DocOrder[i]
         IN  LintEach(IF d \in open THEN runLinter(st, d, Info("open", d, spawnOk))
                      ELSE st,
                      open, i + 1, spawnOk)

\* registerLinters: subscribes the handlers and lints every open document
registerLinters ==
    /\ pythonCmd \in {"python3", "python"}
    /\ ~activated
    /\ activated' = TRUE
    /\ \E spawnOk \in SpawnOutcomes : SetPool(LintEach(Pool, textDocuments, 1, spawnOk))
    /\ UNCHANGED <<call, pythonCmd, workspace, textDocuments, deactivated, nEvents, text,
                   published, timers, debounceMap, sinceChange, timerReqs, nMalformed>>

onDidSaveTextDocument(d) ==
    /\ activated
    /\ ~deactivated
    /\ nEvents < MaxEvents
    /\ \E spawnOk \in SpawnOutcomes : SetPool(runLinter(Pool, d, Info("save", d, spawnOk)))
    /\ nEvents' = nEvents + 1
    /\ UNCHANGED <<call, pythonCmd, workspace, textDocuments, deactivated, activated, text,
                   published, timers, debounceMap, sinceChange, timerReqs, nMalformed>>

onDidChangeTextDocument(d) ==
    /\ activated
    /\ ~deactivated
    /\ nEvents < MaxEvents
    /\ text' = [text EXCEPT ![d] = @ + 1]
    /\ IF Supported(LanguageId(d))
       THEN LET ts == SetTimeout(ClearTimeout(timers, debounceMap[d]), d)
                new == CHOOSE t \in ts : t \notin ClearTimeout(timers, debounceMap[d])
            IN  /\ timers' = ts
                /\ debounceMap' = [debounceMap EXCEPT ![d] = new.id]
       ELSE UNCHANGED <<timers, debounceMap>>
    /\ sinceChange' = [sinceChange EXCEPT ![d] = 0]
    /\ timerReqs' = [timerReqs EXCEPT ![d] = 0]
    /\ nEvents' = nEvents + 1
    /\ UNCHANGED <<call, pythonCmd, workspace, textDocuments, deactivated, activated, procs, pythonProcesses, published, reqLog, nCrashes, nMalformed>>

\* the active editor changed to document d
onDidChangeActiveTextEditor(d) ==
    /\ activated
    /\ ~deactivated
    /\ nEvents < MaxEvents
    /\ \E spawnOk \in SpawnOutcomes : SetPool(runLinter(Pool, d, Info("focus", d, spawnOk)))
    /\ nEvents' = nEvents + 1
    /\ UNCHANGED <<call, pythonCmd, workspace, textDocuments, deactivated, activated, text,
                   published, timers, debounceMap, sinceChange, timerReqs, nMalformed>>

\* the setTimeout callback of the change handler
DebounceTimeout(t) ==
    /\ t \in timers
    /\ t.remaining = 0
    /\ timers' = timers \ {t}
    /\ \E spawnOk \in SpawnOutcomes :
           SetPool(runLinter(Pool, t.doc, Info("change", t.doc, spawnOk)))
    /\ debounceMap' = [debounceMap EXCEPT ![t.doc] = 0]
    /\ timerReqs' = [timerReqs EXCEPT ![t.doc] = @ + 1]
    /\ UNCHANGED <<call, pythonCmd, workspace, textDocuments, deactivated, activated, text,
                   published, sinceChange, nEvents, nMalformed>>

Max(a, b) == IF a > b THEN a ELSE b
Min(a, b) == IF a < b THEN a ELSE b

\* time passes; a due timer runs before time passes again
Tick ==
    /\ timers # {}
    /\ \A t \in timers : t.remaining > 0
    /\ timers' = {[t EXCEPT !.remaining = Max(0, @ - TickLen)] : t \in timers}
    /\ sinceChange' = [d \in Docs |-> Min(DebounceDelay, sinceChange[d] + TickLen)]
    /\ UNCHANGED <<call, pythonCmd, workspace, textDocuments, deactivated, activated, text, procs, pythonProcesses, published, debounceMap,
                   reqLog, timerReqs, nEvents, nCrashes, nMalformed>>

(* --------------------------- linter process --------------------------- *)

\* the linter reads one request line and prints one response line
LinterAnswer(k, wellFormed) ==
    /\ k \in 1..Len(procs)
    /\ procs[k].alive
    /\ procs[k].stdin # <<>>
    /\ wellFormed \/ nMalformed < MaxMalformed
    /\ nMalformed' = IF wellFormed THEN nMalformed ELSE nMalformed + 1
    /\ LET req == Head(procs[k].stdin)
       IN  /\ procs' = [procs EXCEPT ![k].stdin = Tail(@),
                                     ![k].stdout = @ \o ResponseRecord(req, wellFormed)]
           /\ reqLog' = [reqLog EXCEPT ![req.rid[1]][req.rid[2]].resp =
                                          IF wellFormed THEN "ok" ELSE "bad"]
    /\ UNCHANGED <<call, pythonCmd, workspace, textDocuments, deactivated, activated, text, pythonProcesses, published, timers, debounceMap,
                   sinceChange, timerReqs, nEvents, nCrashes>>

\* the linter process exits; what it had not read is lost
LinterExit(k) ==
    /\ k \in 1..Len(procs)
    /\ procs[k].alive
    /\ nCrashes < MaxCrashes
    /\ procs' = [procs EXCEPT ![k].alive = FALSE, ![k].stdin = <<>>]
    /\ nCrashes' = nCrashes + 1
    /\ UNCHANGED <<call, pythonCmd, workspace, textDocuments, deactivated, activated, text, pythonProcesses, published, timers, debounceMap,
                   reqLog, sinceChange, timerReqs, nEvents, nMalformed>>

\* the linter reads end-of-file on its stdin and exits
LinterEndOfInput(k) ==
    /\ k \in 1..Len(procs)
    /\ procs[k].alive
    /\ procs[k].ended
    /\ procs[k].stdin = <<>>
    /\ procs' = [procs EXCEPT ![k].alive = FALSE]
    /\ UNCHANGED <<call, pythonCmd, workspace, textDocuments, deactivated, activated, text, pythonProcesses,
                   published, timers, debounceMap, reqLog, sinceChange, timerReqs,
                   nEvents, nCrashes, nMalformed>>

(* ---------------------------- deactivation ---------------------------- *)

\* for (const proc of pythonProcesses.values()) proc.stdin.end();
\* the host disposes context.subscriptions, so no editor event is handled later
deactivate ==
    /\ activated
    /\ ~deactivated
    /\ nEvents < MaxEvents
    /\ nEvents' = nEvents + 1
    /\ deactivated' = TRUE
    /\ procs' = [k \in 1..Len(procs) |->
                    IF \E l \in DOMAIN pythonProcesses : pythonProcesses[l] = k
                    THEN [procs[k] EXCEPT !.ended = TRUE]
                    ELSE procs[k]]
    /\ UNCHANGED <<call, pythonCmd, workspace, textDocuments, activated, text, pythonProcesses, published,
                   timers, debounceMap, reqLog, sinceChange, timerReqs,
                   nCrashes, nMalformed>>

(* ------------------------- response handling -------------------------- *)

\* a callback that adds the new diagnostics to the ones already published
CallbackMerge(pub, d, issues) == [pub EXCEPT ![d] = pub[d] \o Diagnostics(issues)]

\* diagnosticCollection.set(document.uri, diagnostics)
Callback(pub, d, issues) == [pub EXCEPT ![d] = Diagnostics(issues)]

\* a catch block that reports the failure as an empty issue list
CatchInvalidJSONClears(pub, d) == [pub EXCEPT ![d] = <<>>]

\* catch (e) { console.error(...) }
CatchInvalidJSON(pub, d) == pub

\* onData of one listener; acc = [keep, pub, log]
onData(l, chunk, acc) ==
    LET output == l.output \o chunk
    IN  IF EndsWithNewline(output)
        THEN LET parsed == JSONParse(Trim(output))
             IN  IF parsed.ok
                 THEN [acc EXCEPT !.pub = Callback(acc.pub, l.doc, parsed.issues),
                                  !.log[l.rid[1]][l.rid[2]].fate =
                                      IF parsed.rid = l.rid THEN "own" ELSE "other"]
                 ELSE [acc EXCEPT !.pub = CatchInvalidJSON(acc.pub, l.doc),
                                  !.log[l.rid[1]][l.rid[2]].fate = "invalid"]
        ELSE [acc EXCEPT !.keep = Append(@, [l EXCEPT !.output = output])]

\* stdout emits 'data': every registered listener is called, in order
RECURSIVE EmitData(_, _, _)
EmitData(ls, chunk, acc) ==
    IF ls = <<>> THEN acc
    ELSE EmitData(Tail(ls), chunk, onData(Head(ls), chunk, acc))

\* the host reads the next n bytes of a process's stdout as one chunk
StdoutData(k, n) ==
    /\ k \in 1..Len(procs)
    /\ n \in 1..Len(procs[k].stdout)
    /\ LET chunk == SubSeq(procs[k].stdout, 1, n)
           r == EmitData(procs[k].listeners, chunk,
                         [keep |-> <<>>, pub |-> published, log |-> reqLog])
       IN  /\ procs' = [procs EXCEPT ![k].stdout = SubSeq(@, n + 1, Len(@)),
                                     ![k].listeners = r.keep]
           /\ published' = r.pub
           /\ reqLog' = r.log
    /\ UNCHANGED <<call, pythonCmd, workspace, textDocuments, deactivated, activated, text, pythonProcesses, timers, debounceMap,
                   sinceChange, timerReqs, nEvents, nCrashes, nMalformed>>

(* ---------------------------- specification --------------------------- *)

Next ==
    \/ registerLinters
    \/ \E d \in workspace : onDidSaveTextDocument(d)
    \/ \E d \in workspace : onDidChangeTextDocument(d)
    \/ \E d \in workspace : onDidChangeActiveTextEditor(d)
    \/ \E t \in timers : DebounceTimeout(t)
    \/ Tick
    \/ \E k \in 1..Len(procs) : \E wf \in BOOLEAN : LinterAnswer(k, wf)
    \/ \E k \in 1..Len(procs) : LinterExit(k)
    \/ \E k \in 1..Len(procs) : LinterEndOfInput(k)
    \/ deactivate
    \/ \E k \in 1..Len(procs) : \E n \in 1..Len(procs[k].stdout) : StdoutData(k, n)

Spec == Init /\ [][Next]_vars

(* ------------------------ functions under study ---------------------- *)

sessionVars == <<workspace, textDocuments, activated, deactivated, text, procs,
                 pythonProcesses, published, timers, debounceMap, reqLog, sinceChange,
                 timerReqs, nEvents, nCrashes, nMalformed>>

\* an optional field of a JSON object: o is <<>> (absent) or <<value>>
Opt(name, o) == IF o = <<>> THEN <<>> ELSE name :> o[1]

\* issue records a linter can send
IssueInputs ==
    {[line |-> l, column |-> c, message |-> "m"]
        @@ Opt("length", len) @@ Opt("severity", sev) @@ Opt("code", cd) :
     l \in {0, 2}, c \in {0, 3},
     len \in {<<>>, <<0>>, <<1>>, <<4>>},
     sev \in {<<>>, <<0>>, <<1>>, <<2>>},
     cd \in {<<>>, <<"">>, <<"replace-with-C">>}}

\* issues.map(issue => ...) applied to one issue
toDiagnosticCall ==
    /\ call.fn = "toDiagnostic"
    /\ ~call.done
    /\ call' = [call EXCEPT !.out = ToDiagnostic(call.in), !.done = TRUE]
    /\ UNCHANGED <<pythonCmd, sessionVars>>

(* quick fixes *)

HasCode(diagnostic, c) == "code" \in DOMAIN diagnostic /\ diagnostic.code = c

\* new vscode.CodeAction(title, QuickFix) with its one replace edit
CodeAction(uri, diagnostic, title, newText) ==
    [title |-> title, kind |-> "QuickFix",
     edit |-> <<[uri |-> uri, range |-> diagnostic.range, newText |-> newText]>>,
     diagnostics |-> <<diagnostic>>, isPreferred |-> TRUE]

\* the body of the loop of provideCodeActions: what it pushes for one diagnostic
QuickFix(uri, diagnostic) ==
    IF HasCode(diagnostic, "replace-with-C")
    THEN <<CodeAction(uri, diagnostic, "Replace with 'C'", "C")>>
    ELSE IF HasCode(diagnostic, "replace-with-??")
    THEN <<CodeAction(uri, diagnostic, "Replace with '??'", "??")>>
    ELSE IF HasCode(diagnostic, "universal-rule")
    THEN <<CodeAction(uri, diagnostic, "Replace with a default rule", "default")>>
    ELSE <<>>

\* the loop body of the two older copies of the provider
QuickFixOlder(uri, diagnostic) ==
    IF HasCode(diagnostic, "replace-with-C")
    THEN <<CodeAction(uri, diagnostic, "Replace with 'C'", "C")>>
    ELSE IF HasCode(diagnostic, "replace-with-??")
    THEN <<CodeAction(uri, diagnostic, "Replace with '??'", "??")>>
    ELSE <<>>

\* for (const diagnostic of context.diagnostics) { ... } return actions
RECURSIVE provideCodeActions(_, _, _)
provideCodeActions(provider, uri, diagnostics) ==
    IF diagnostics = <<>> THEN <<>>
    ELSE (IF provider = "current"
          THEN QuickFix(uri, Head(diagnostics))
          ELSE QuickFixOlder(uri, Head(diagnostics)))
         \o provideCodeActions(provider, uri, Tail(diagnostics))

\* the copies of CsmlQuickFixProvider in the repository
Providers == {"current", "older"}

DiagnosticInputs ==
    {[range |-> r, message |-> "m", severity |-> "Error"] @@ Opt("code", cd) :
     r \in {<<1, 0, 1, 1>>, <<2, 3, 2, 7>>},
     cd \in {<<>>, <<"replace-with-C">>, <<"replace-with-??">>, <<"universal-rule">>,
             <<"other">>}}

DiagnosticLists == UNION {[1..n -> DiagnosticInputs] : n \in 0..MaxDiagnostics}

provideCodeActionsCall ==
    /\ call.fn = "provideCodeActions"
    /\ ~call.done
    /\ call' = [call EXCEPT !.out = provideCodeActions(call.provider, call.uri, call.in),
                            !.done = TRUE]
    /\ UNCHANGED <<pythonCmd, sessionVars>>

(* locating the python command *)

\* ['python3', 'python']
Candidates == <<"python3", "python">>

\* what `cmd --version` and `cmd -c "import lark"` do on a machine: the command
\* does not print a version triple, or prints one and has lark or not
Probes ==
    {[resolves |-> FALSE]} \cup
    [resolves : {TRUE}, major : {2, 3}, minor : {9, 10}, patch : {0, 1}, lark : BOOLEAN]

Machines == [{"python3", "python"} -> Probes]

\* getPythonVersion(cmd) followed by filter(Boolean): <<>> stands for null
getPythonVersion(env, cmd) ==
    IF env[cmd].resolves
    THEN <<[cmd |-> cmd, major |-> env[cmd].major, minor |-> env[cmd].minor,
            patch |-> env[cmd].patch]>>
    ELSE <<>>

\* a comparator that looks at the major number only
CompareMajorOnly(a, b) == b.major - a.major

\* the comparator handed to candidates.sort
Compare(a, b) ==
    IF a.major # b.major THEN b.major - a.major
    ELSE IF a.minor # b.minor THEN b.minor - a.minor
    ELSE b.patch - a.patch

\* Array.prototype.sort (stable): x goes after every element it does not precede
RECURSIVE Insert(_, _)
Insert(sorted, x) ==
    IF sorted = <<>> THEN <<x>>
    ELSE IF Compare(Head(sorted), x) <= 0
         THEN <<Head(sorted)>> \o Insert(Tail(sorted), x)
         ELSE <<x>> \o sorted

RECURSIVE Sort(_)
Sort(s) == IF s = <<>> THEN <<>> ELSE Insert(Sort(SubSeq(s, 1, Len(s) - 1)), s[Len(s)])

\* the top level of the module: the command, or the error thrown
LocatePython(env) ==
    LET candidates == Sort(getPythonVersion(env, Candidates[1])
                           \o getPythonVersion(env, Candidates[2]))
    IN  IF Len(candidates) = 0
        THEN [selected |-> "none", pythonCmd |-> "failed", error |-> "no python"]
        ELSE IF ~env[candidates[1].cmd].lark
        THEN [selected |-> candidates[1].cmd, pythonCmd |-> "failed", error |-> "no lark"]
        ELSE [selected |-> candidates[1].cmd, pythonCmd |-> candidates[1].cmd,
              error |-> "none"]

\* loading the module on a machine; a throw leaves the extension without activate
loadModule ==
    /\ call.fn = "locate"
    /\ ~call.done
    /\ call' = [call EXCEPT !.out = LocatePython(call.in), !.done = TRUE]
    /\ pythonCmd' = LocatePython(call.in).pythonCmd
    /\ UNCHANGED sessionVars

InitFunctions ==
    /\ InitSession
    /\ workspace = {"a.csml", "c.mcml"}
    /\ textDocuments = workspace
    /\ \/ /\ pythonCmd = "unset"
          /\ call \in [fn : {"locate"}, in : Machines, out : {<<>>}, done : {FALSE}]
       \/ /\ pythonCmd = "python3"
          /\ \/ call \in [fn : {"toDiagnostic"}, in : IssueInputs, out : {<<>>},
                           done : {FALSE}]
             \/ call \in [fn : {"provideCodeActions"}, provider : Providers,
                           uri : {"a.csml"}, in : DiagnosticLists, out : {<<>>},
                           done : {FALSE}]

NextFunctions ==
    \/ toDiagnosticCall
    \/ provideCodeActionsCall
    \/ loadModule
    \/ registerLinters

SpecFunctions == InitFunctions /\ [][NextFunctions]_vars

(* ------------------------- derived notions ---------------------------- *)

Requests == {<<d, i>> : d \in Docs, i \in 1..MaxEvents + 1}

Issued(d) == 1..Len(reqLog[d])

\* the response to request i of document d was produced and has been read whole
Completed(d, i) ==
    /\ reqLog[d][i].resp # "none"
    /\ \A k \in 1..Len(procs) :
           \A j \in 1..Len(procs[k].stdout) : procs[k].stdout[j].rid # <<d, i>>

\* requests written to process k whose response has not been read whole
InFlight(k) ==
    {r \in Requests : /\ r[2] \in Issued(r[1])
                      /\ reqLog[r[1]][r[2]].proc = k
                      /\ reqLog[r[1]][r[2]].toLive
                      /\ ~Completed(r[1], r[2])}

\* the bytes the host reads in a step from process k
ChunkRead(k) ==
    SubSeq(procs[k].stdout, 1, Len(procs[k].stdout) - Len(procs'[k].stdout))

\* listener l of process k is unregistered by the step
Unregistered(k, l) ==
    /\ Len(procs'[k].stdout) < Len(procs[k].stdout)
    /\ \A j \in 1..Len(procs'[k].listeners) : procs'[k].listeners[j].rid # l.rid

ListenersOf(k) == {procs[k].listeners[j] : j \in 1..Len(procs[k].listeners)}

IsOneRecord(output) ==
    /\ Len(output) = 2
    /\ output[1].ch # "nl"
    /\ output[2].ch = "nl"
    /\ output[1].rid = output[2].rid

LiveTimers(d) == {t \in timers : t.doc = d}

(* ------------------------------ claims -------------------------------- *)

\* C1: sequence fencing. When a document has had two or more requests, all of
\* their responses were well-formed and have been produced and read, the
\* published diagnostics of the document are those of the last request's
\* response.
C1_FencingLastWins ==
    \A d \in Docs :
        LET n == Len(reqLog[d])
        IN  (/\ n >= 2
             /\ \A i \in 1..n : Completed(d, i) /\ reqLog[d][i].resp = "ok")
            => published[d] = Diagnostics(Analyze(reqLog[d][n].code))

\* C2: debounce. At most one request is issued by the debounce timer after the
\* last change of a document; once no timer is pending exactly one has been
\* issued, and it carries the current text; every timer-issued request was
\* issued a full idle gap after the last change.
C2_Debounce ==
    \A d \in Docs :
        /\ timerReqs[d] <= 1
        /\ (Supported(LanguageId(d)) /\ text[d] > 0 /\ LiveTimers(d) = {})
               => timerReqs[d] = 1
        /\ \A i \in Issued(d) :
               reqLog[d][i].trigger = "change" => reqLog[d][i].elapsed >= DebounceDelay
        /\ timerReqs[d] = 1 =>
               \E i \in Issued(d) :
                   /\ reqLog[d][i].trigger = "change"
                   /\ reqLog[d][i].code = text[d]
                   /\ \A j \in Issued(d) :
                          (j > i => reqLog[d][j].trigger # "change")

\* a burst of two changes was followed by its one request, sent to the linter
C2_Witness ==
    \E d \in Docs :
        /\ text[d] >= 2
        /\ timerReqs[d] = 1
        /\ LiveTimers(d) = {}
        /\ \E i \in Issued(d) :
               reqLog[d][i].trigger = "change" /\ reqLog[d][i].code = text[d]

\* C3: per-worker serialization. A running worker never has more than one
\* request written to it whose response has not been read whole.
C3_OneInFlight ==
    \A k \in 1..Len(procs) : procs[k].alive => Cardinality(InFlight(k)) <= 1

\* C4: no request is lost to contention. A request issued while its worker was
\* busy, whose well-formed response has been produced and read, has had that
\* response (its own) processed for it.
C4_BusyRequestHonored ==
    \A d \in Docs : \A i \in Issued(d) :
        (/\ reqLog[d][i].busy
         /\ reqLog[d][i].toLive
         /\ reqLog[d][i].resp = "ok"
         /\ Completed(d, i))
        => reqLog[d][i].fate = "own"

\* C5: crash recovery. Every lint request is written to a running worker: a
\* worker that has exited is not returned by the pool. (A worker that never
\* started is the subject of C15.)
C5_RequestsGoToLiveWorker ==
    \A d \in Docs : \A i \in Issued(d) :
        reqLog[d][i].toLive \/ ~procs[reqLog[d][i].proc].spawned

\* C6: framing independent of chunking. Whenever a listener hands its output
\* to the decoder, that output is exactly one newline-terminated record.
C6_OneRecordPerDecode ==
    [][\A k \in 1..Len(procs) :
          \A l \in ListenersOf(k) :
              Unregistered(k, l) => IsOneRecord(l.output \o ChunkRead(k))]_vars

\* C7: a response that fails to decode publishes nothing. The published
\* diagnostics of a document change in a step only if a listener of that
\* document decoded its output successfully in that step.
C7_DecodeFailurePublishesNothing ==
    [][\A d \in Docs :
          published'[d] # published[d] =>
              \E k \in 1..Len(procs) : \E l \in ListenersOf(k) :
                  /\ l.doc = d
                  /\ Unregistered(k, l)
                  /\ JSONParse(Trim(l.output \o ChunkRead(k))).ok]_vars

\* a malformed response was received for a request of a document that has
\* published diagnostics
C7_Witness ==
    \E d \in Docs : \E i \in Issued(d) :
        /\ reqLog[d][i].resp = "bad"
        /\ Completed(d, i)
        /\ reqLog[d][i].fate = "invalid"
        /\ published[d] # <<>>

\* C8: a malformed response does not poison the next exchange. When the
\* response to the last request of a document is well-formed, the response to
\* the request before it was malformed, and both have been read, the published
\* diagnostics are the translation of the well-formed response.
C8_MalformedThenWellFormed ==
    \A d \in Docs :
        LET n == Len(reqLog[d])
        IN  (/\ n >= 2
             /\ reqLog[d][n - 1].resp = "bad"
             /\ reqLog[d][n].resp = "ok"
             /\ Completed(d, n - 1)
             /\ Completed(d, n))
            => published[d] = Diagnostics(Analyze(reqLog[d][n].code))

\* C9: save cancels the pending debounce timer. After a save has issued a
\* request for a text, the debounce timer issues no further request for that
\* same text.
C9_SaveCancelsTimer ==
    \A d \in Docs : \A i \in Issued(d) : \A j \in Issued(d) :
        (i < j /\ reqLog[d][i].trigger = "save" /\ reqLog[d][j].trigger = "change")
        => reqLog[d][j].code # reqLog[d][i].code

\* C10: one worker per language. At most one running worker exists per
\* language; a worker exists only for a language that has had a request; and
\* every request went to the worker the pool holds for its language.
C10_OneWorkerPerLanguage ==
    /\ \A l \in Languages :
           Cardinality({k \in 1..Len(procs) : procs[k].lang = l /\ procs[k].alive}) <= 1
    /\ \A k \in 1..Len(procs) :
           \E d \in Docs : LanguageId(d) = procs[k].lang /\ reqLog[d] # <<>>
    /\ \A d \in Docs : \A i \in Issued(d) :
           /\ reqLog[d][i].proc = pythonProcesses[LanguageId(d)]
           /\ procs[reqLog[d][i].proc].lang = LanguageId(d)

\* two requests of one language were both written to the one running worker
C10_Witness ==
    \E d1 \in Docs : \E d2 \in Docs : \E i \in Issued(d1) : \E j \in Issued(d2) :
        /\ <<d1, i>> # <<d2, j>>
        /\ LanguageId(d1) = LanguageId(d2)
        /\ reqLog[d1][i].toLive /\ reqLog[d2][j].toLive
        /\ reqLog[d1][i].proc = reqLog[d2][j].proc

\* C11: shutdown. No lint request is issued after deactivation: no later event,
\* including a debounce timer that was pending, registers a listener or
\* writes to a worker's input stream.
C11_NoRequestAfterDeactivate ==
    \A d \in Docs : \A i \in Issued(d) : ~reqLog[d][i].late

\* C12: issue-to-diagnostic translation. The diagnostic of an issue has range
\* (line, column)-(line, column + length), length being 1 only when the issue
\* has none; severity Warning when the issue's severity is 1 and Error
\* otherwise; the message copied; the code copied when the issue has one and
\* absent otherwise.
C12_Translation ==
    (call.fn = "toDiagnostic" /\ call.done) =>
        LET i == call.in
            g == call.out
            len == IF "length" \in DOMAIN i THEN i.length ELSE 1
        IN  /\ g.range = <<i.line, i.column, i.line, i.column + len>>
            /\ g.severity = IF "severity" \in DOMAIN i /\ i.severity = 1
                             THEN "Warning" ELSE "Error"
            /\ g.message = i.message
            /\ "code" \in DOMAIN g <=> "code" \in DOMAIN i
            /\ "code" \in DOMAIN i => g.code = i.code

\* the replacement literal the specification gives for a diagnostic code
FixLiteral(c) ==
    CASE c = "replace-with-C" -> "C"
      [] c = "replace-with-??" -> "??"
      [] c = "universal-rule" -> "default"

\* out holds one preferred action per diagnostic of diagnostics whose code is
\* in codes, in order, each with the one edit replacing that diagnostic's range
OneFixPerRecognized(uri, diagnostics, out, codes) ==
    LET Recognized(g) == "code" \in DOMAIN g /\ g.code \in codes
        rec == SelectSeq(diagnostics, Recognized)
    IN  /\ Len(out) = Len(rec)
        /\ \A i \in 1..Len(rec) :
               /\ out[i].diagnostics = <<rec[i]>>
               /\ out[i].isPreferred
               /\ out[i].kind = "QuickFix"
               /\ out[i].edit = <<[uri |-> uri, range |-> rec[i].range,
                                   newText |-> FixLiteral(rec[i].code)]>>

\* C13: every resolver of the repository returns exactly one action
\* per diagnostic whose code is replace-with-C, replace-with-?? or
\* universal-rule, in order, replacing that diagnostic's range with "C", "??"
\* or "default"; other diagnostics yield no action.
C13_QuickFixAllProviders ==
    (call.fn = "provideCodeActions" /\ call.done) =>
        OneFixPerRecognized(call.uri, call.in, call.out,
                            {"replace-with-C", "replace-with-??", "universal-rule"})

\* v is at least w in the lexicographic order of triples
LexGeq(v, w) ==
    \/ v[1] > w[1]
    \/ v[1] = w[1] /\ v[2] > w[2]
    \/ v[1] = w[1] /\ v[2] = w[2] /\ v[3] >= w[3]

\* C14: the selected command is a candidate that resolves to a version triple
\* and no resolving candidate has a higher triple; location fails exactly when
\* no candidate resolves or the selected one lacks lark; after a failure the
\* extension is never activated and no worker is created.
C14_RuntimeLocation ==
    (call.fn = "locate" /\ call.done) =>
        LET env == call.in
            resolved == {c \in {"python3", "python"} : env[c].resolves}
            V(c) == <<env[c].major, env[c].minor, env[c].patch>>
            sel == call.out.selected
        IN  /\ resolved = {} <=> sel = "none"
            /\ resolved # {} =>
                   /\ sel \in resolved
                   /\ \A c \in resolved : LexGeq(V(sel), V(c))
            /\ pythonCmd = "failed" <=> (resolved = {} \/ ~env[sel].lark)
            /\ pythonCmd # "failed" => pythonCmd = sel
            /\ pythonCmd = "failed" => procs = <<>> /\ ~activated

\* python was selected for its higher minor number (10 against 9) and lacks
\* lark, so location failed although python3 has lark
C14_Witness ==
    /\ call.fn = "locate" /\ call.done
    /\ call.in["python3"].resolves /\ call.in["python"].resolves
    /\ call.in["python3"].major = call.in["python"].major
    /\ call.in["python3"].minor = 9 /\ call.in["python"].minor = 10
    /\ call.in["python3"].patch = 1 /\ call.in["python"].patch = 0
    /\ call.in["python3"].lark /\ ~call.in["python"].lark
    /\ call.out.selected = "python"
    /\ pythonCmd = "failed"

\* the requests written (or attempted) on process k
RequestsOn(k) ==
    {r \in Requests : r[2] \in Issued(r[1]) /\ reqLog[r[1]][r[2]].proc = k}

\* C15: spawn failure. A worker whose spawn failed is not left registered in
\* the pool, so the next request for its language attempts the spawn again:
\* no second request is ever directed at a process that failed to start.
C15_SpawnFailureRetried ==
    \A k \in 1..Len(procs) :
        ~procs[k].spawned =>
            /\ \A l \in LanguageIds : pythonProcesses[l] # k
            /\ Cardinality(RequestsOn(k)) <= 1

\* the handles of the live timers of document d
TimerIds(ts, d) == {t.id : t \in {u \in ts : u.doc = d}}

\* C16: debounce-timer invariant. After every step each document has at most
\* one live timer, and the handle registered for it is the handle of that
\* timer (none when it has no live timer, in particular once its timer has
\* fired); the live timer of a document changes only by a change event on that
\* document or by firing, never by an event on another document; and a change
\* event leaves the document with exactly one timer, set to the full delay.
C16_OneTimerPerDocument ==
    [][\A d \in Docs :
          /\ Cardinality(TimerIds(timers', d)) <= 1
          /\ Cardinality({t \in timers' : t.doc = d}) <= 1
          /\ TimerIds(timers', d) = {debounceMap'[d]} \ {0}
          /\ TimerIds(timers', d) # TimerIds(timers, d) =>
                 \/ text'[d] # text[d]
                 \/ timerReqs'[d] = timerReqs[d] + 1 /\ TimerIds(timers', d) = {}
          /\ (text'[d] # text[d] /\ Supported(LanguageId(d))) =>
                 \E t \in timers' :
                     /\ t.doc = d
                     /\ t.remaining = DebounceDelay
                     /\ {u \in timers' : u.doc = d} = {t}]_vars

\* two documents have a live timer each, started at different times
C16_Witness ==
    \E d, e \in Docs :
        /\ d # e
        /\ \E t, u \in timers :
               /\ t.doc = d /\ u.doc = e
               /\ t.remaining < u.remaining
               /\ debounceMap[d] = t.id /\ debounceMap[e] = u.id

\* the decodable output listener l of process k hands over in this step
Accepted(k, l) == JSONParse(Trim(l.output \o ChunkRead(k)))

\* C17: wholesale replacement. In a step where a listener of a document
\* decodes a response, the document's published diagnostics become exactly
\* the translation of that response's issues; the published diagnostics of a
\* document none of whose listeners decodes a response are unchanged.
C17_WholesaleReplacement ==
    [][LET read == {k \in 1..Len(procs) : Len(procs'[k].stdout) < Len(procs[k].stdout)}
       IN  IF read = {}
           THEN published' = published
           ELSE \A k \in read : \A d \in Docs :
                    LET acc == {l \in ListenersOf(k) :
                                   /\ l.doc = d
                                   /\ Unregistered(k, l)
                                   /\ Accepted(k, l).ok}
                    IN  IF acc = {}
                        THEN published'[d] = published[d]
                        ELSE \E l \in acc :
                                 published'[d] = Diagnostics(Accepted(k, l).issues)]_vars

\* a document whose first response (one issue) was published now has the
\* empty diagnostics of its later, empty response
C17_Witness ==
    \E d \in Docs : \E i, j \in Issued(d) :
        /\ i < j
        /\ reqLog[d][i].fate = "own" /\ Analyze(reqLog[d][i].code) # <<>>
        /\ reqLog[d][j].fate = "own" /\ Analyze(reqLog[d][j].code) = <<>>
        /\ published[d] = <<>>

\* C18: response attribution. The diagnostics published for a document are
\* the translation of a well-formed response to one of the requests issued
\* for that document (or nothing has been published for it).
C18_ResponseAttribution ==
    \A d \in Docs :
        published[d] # <<>> =>
            \E i \in Issued(d) :
                /\ reqLog[d][i].resp = "ok"
                /\ published[d] = Diagnostics(Analyze(reqLog[d][i].code))

\* C19: unsupported languages are inert. A document whose language is not
\* supported never has a request or a timer; and an editor event that is not
\* an event on a supported document (it changes no supported document's text
\* and issues no request for one) spawns nothing, writes nothing, starts or
\* cancels no timer and leaves the published diagnostics unchanged.
C19_UnsupportedInert ==
    [][/\ \A d \in Docs :
             ~Supported(LanguageId(d)) =>
                 /\ reqLog'[d] = <<>>
                 /\ debounceMap'[d] = 0
                 /\ \A t \in timers' : t.doc # d
                 /\ published'[d] = <<>>
       /\ pythonProcesses'["plaintext"] = 0
       /\ \A k \in 1..Len(procs') : Supported(procs'[k].lang)
       /\ (/\ nEvents' # nEvents
           /\ ~deactivated'
           /\ \A d \in Docs :
                  Supported(LanguageId(d)) =>
                      text'[d] = text[d] /\ reqLog'[d] = reqLog[d])
          => UNCHANGED <<procs, pythonProcesses, timers, debounceMap, published,
                         reqLog>>]_vars

\* the unsupported document of the session has been changed, and was open at
\* activation, with no request, timer or process to show for it
C19_Witness ==
    /\ "n.txt" \in textDocuments
    /\ activated
    /\ text["n.txt"] > 0
    /\ reqLog["n.txt"] = <<>>
    /\ timers = {}
    /\ Len(procs) = 1

\* C20: listener lifecycle. On a worker that was started and is still running
\* with its input open, the number of registered listeners never exceeds the
\* number of requests written to it whose response has not been read whole.
C20_ListenersBoundedByInFlight ==
    \A k \in 1..Len(procs) :
        (procs[k].spawned /\ procs[k].alive /\ ~procs[k].ended) =>
            Len(procs[k].listeners) <= Cardinality(InFlight(k))

====
